---- MODULE Spec2Model ----
(***************************************************************************)
(* A model of run.py, the keep-alive / rebuild driver for Hugging Face     *)
(* Spaces: configuration parsing, the two classifiers, the wait loop, the  *)
(* restart command and the per-target loop of main.                        *)
(*                                                                         *)
(* Python strings are sequences of one-character strings, so that strip,   *)
(* split, upper, lower and the substring tests are computed, not assumed.  *)
(* None is the model value NoneVal.  The clock is the number of seconds    *)
(* since overall_t0.  The duration and timestamp fields of an Outcome feed *)
(* only the report text and are left out of the Outcome record.            *)
(***************************************************************************)
EXTENDS Integers, Sequences, FiniteSets, TLC

\* Python's None: a one-element tuple that no string (a tuple of characters) equals
NoneVal == <<"None">>

\* ---------------------------------------------------------------- strings

UpperChars == <<"A","B","C","D","E","F","G","H","I","J","K","L","M",
                "N","O","P","Q","R","S","T","U","V","W","X","Y","Z">>
LowerChars == <<"a","b","c","d","e","f","g","h","i","j","k","l","m",
                "n","o","p","q","r","s","t","u","v","w","x","y","z">>

\* str.upper() / str.lower() on one ASCII character
UpperChar(c) ==
    IF \E k \in 1..26 : LowerChars[k] = c
    THEN UpperChars[CHOOSE k \in 1..26 : LowerChars[k] = c]
    ELSE c
LowerChar(c) ==
    IF \E k \in 1..26 : UpperChars[k] = c
    THEN LowerChars[CHOOSE k \in 1..26 : UpperChars[k] = c]
    ELSE c
Upper(s) == [k \in 1..Len(s) |-> UpperChar(s[k])]
Lower(s) == [k \in 1..Len(s) |-> LowerChar(s[k])]

\* Python's `k in s` for strings
Contains(s, k) ==
    \E p \in 1..(Len(s) - Len(k) + 1) : SubSeq(s, p, p + Len(k) - 1) = k

IsSpace(c) == c \in {" ", "\t", "\n"}

\* str.strip()
RECURSIVE LStrip(_)
LStrip(s) == IF s # <<>> /\ IsSpace(Head(s)) THEN LStrip(Tail(s)) ELSE s
RECURSIVE RStrip(_)
RStrip(s) ==
    IF s # <<>> /\ IsSpace(s[Len(s)]) THEN RStrip(SubSeq(s, 1, Len(s) - 1)) ELSE s
Strip(s) == RStrip(LStrip(s))

\* str.split(","): always at least one field
RECURSIVE SplitComma(_)
SplitComma(s) ==
    IF \E p \in 1..Len(s) : s[p] = ","
    THEN LET p == CHOOSE q \in 1..Len(s) :
                    s[q] = "," /\ \A r \in 1..(q - 1) : s[r] # ","
         IN  <<SubSeq(s, 1, p - 1)>> \o SplitComma(SubSeq(s, p + 1, Len(s)))
    ELSE <<s>>

Digits == <<"0","1","2","3","4","5","6","7","8","9">>
IsDigit(c) == \E k \in 1..10 : Digits[k] = c
DigitVal(c) == (CHOOSE k \in 1..10 : Digits[k] = c) - 1

\* str(n) for n >= 0
RECURSIVE IntToStr(_)
IntToStr(n) ==
    IF n < 10 THEN <<Digits[n + 1]>>
    ELSE IntToStr(n \div 10) \o <<Digits[(n % 10) + 1]>>

\* int(s) for a string of decimal digits
RECURSIVE DigitsToInt(_)
DigitsToInt(s) ==
    IF s = <<>> THEN 0
    ELSE 10 * DigitsToInt(SubSeq(s, 1, Len(s) - 1)) + DigitVal(s[Len(s)])

Max(a, b) == IF a >= b THEN a ELSE b

\* ------------------------------------------------------- state names

RUNNING    == <<"R","U","N","N","I","N","G">>
WAKING_UP  == <<"W","A","K","I","N","G","_","U","P">>
SLEEPING   == <<"S","L","E","E","P","I","N","G">>
ERROR      == <<"E","R","R","O","R">>
UNKNOWN    == <<"U","N","K","N","O","W","N">>
TIMEOUT    == <<"T","I","M","E","O","U","T">>
FAIL       == <<"F","A","I","L">>

LivenessStates == {RUNNING, WAKING_UP, SLEEPING, ERROR, UNKNOWN, TIMEOUT}

RUNNING_BUILDING == RUNNING \o <<"_","B","U","I","L","D","I","N","G">>
BUILDING         == <<"B","U","I","L","D","I","N","G">>
STARTING         == <<"S","T","A","R","T","I","N","G">>
RUNTIME_STARTING == <<"R","U","N","T","I","M","E","_">> \o STARTING
STOPPED          == <<"S","T","O","P","P","E","D">>

\* ------------------------------------------------------------ keywords

WAKING_UP_KEYWORDS == <<
    <<"w","a","k","i","n","g"," ","u","p">>,
    <<"i","s"," ","w","a","k","i","n","g"," ","u","p">>,
    <<"s","p","a","c","e"," ","i","s"," ","l","o","a","d","i","n","g">>,
    <<"l","o","a","d","i","n","g"," ","s","p","a","c","e">>,
    <<"c","o","n","t","a","i","n","e","r"," ","i","s"," ","s","t","a","r","t","i","n","g">>,
    <<"b","u","i","l","d","i","n","g">>,
    <<"l","a","u","n","c","h","i","n","g">>,
    <<"r","u","n","t","i","m","e"," ","i","s"," ","s","t","a","r","t","i","n","g">>,
    <<"r","u","n","t","i","m","e"," ","s","t","a","r","t","i","n","g">>,
    <<"s","t","a","r","t","i","n","g">> >>

ERROR_PAGE_KEYWORDS == <<
    <<"a","p","p","l","i","c","a","t","i","o","n"," ","e","r","r","o","r">>,
    <<"r","u","n","t","i","m","e"," ","e","r","r","o","r">>,
    <<"t","r","a","c","e","b","a","c","k"," ","(","m","o","s","t"," ","r","e","c","e","n","t",
      " ","c","a","l","l"," ","l","a","s","t",")">>,
    <<"b","u","i","l","d"," ","f","a","i","l","e","d">>,
    <<"b","u","i","l","d"," ","e","r","r","o","r">>,
    <<"e","r","r","o","r"," ","i","d",":">>,
    <<"i","n","t","e","r","n","a","l"," ","s","e","r","v","e","r"," ","e","r","r","o","r">> >>

\* ---------------------------------------------------------- classifiers

AnyKeyword(low, kws) == \E k \in 1..Len(kws) : Contains(low, kws[k])

\* a classifier that scans the keywords before it looks at the status
classify_from_html_KeywordsFirst(status_code, html) ==
    LET low == Lower(IF html = NoneVal THEN <<>> ELSE html) IN
    IF AnyKeyword(low, ERROR_PAGE_KEYWORDS) THEN ERROR
    ELSE IF AnyKeyword(low, WAKING_UP_KEYWORDS) THEN WAKING_UP
    ELSE IF status_code >= 500 THEN ERROR
    ELSE IF 200 <= status_code /\ status_code < 300 THEN RUNNING
    ELSE IF status_code >= 400 THEN ERROR
    ELSE UNKNOWN

classify_from_html(status_code, html) ==
    IF status_code >= 500 THEN ERROR
    ELSE LET low == Lower(IF html = NoneVal THEN <<>> ELSE html) IN
         IF AnyKeyword(low, ERROR_PAGE_KEYWORDS) THEN ERROR
         ELSE IF AnyKeyword(low, WAKING_UP_KEYWORDS) THEN WAKING_UP
         ELSE IF 200 <= status_code /\ status_code < 300 THEN RUNNING
         ELSE IF status_code >= 400 THEN ERROR
         ELSE UNKNOWN

\* a normalizer that renames RUNNING_BUILDING to BUILDING and reports a
\* missing stage as UNKNOWN
normalize_stage_Renaming(stage) ==
    IF stage = NoneVal \/ stage = <<>> THEN UNKNOWN
    ELSE LET s == Upper(stage) IN
         IF s = RUNNING THEN RUNNING
         ELSE IF s = RUNNING_BUILDING THEN BUILDING
         ELSE IF s \in {BUILDING, STARTING, RUNTIME_STARTING} THEN WAKING_UP
         ELSE IF s \in {SLEEPING, STOPPED} THEN SLEEPING
         ELSE IF Contains(s, ERROR) \/ Contains(s, FAIL) THEN ERROR
         ELSE s

normalize_stage(stage) ==
    IF stage = NoneVal \/ stage = <<>> THEN NoneVal
    ELSE LET s == Upper(stage) IN
         IF s \in {RUNNING, RUNNING_BUILDING} THEN RUNNING
         ELSE IF s \in {BUILDING, STARTING, RUNTIME_STARTING} THEN WAKING_UP
         ELSE IF s \in {SLEEPING, STOPPED} THEN SLEEPING
         ELSE IF Contains(s, ERROR) \/ Contains(s, FAIL) THEN ERROR
         ELSE s

\* -------------------------------------------------- program constants

DEFAULT_GLOBAL_TIMEOUT == 1800
DEFAULT_WAKEUP_WAIT == 240
DEFAULT_BETWEEN_REQUESTS == 5
RUNTIME_TIMEOUT == 30
PING_TIMEOUT == 60
POST_TIMEOUT == 60
KEEPALIVE_POLL == 10
REBUILD_POLL == 15
REBUILD_FLOOR == 480
TRANSPORT_FAILURE == 599

\* ------------------------------------------------------- configuration

\* env_str: value is the raw environment entry (NoneVal when unset)
env_str(value, default) ==
    LET v == IF value = NoneVal THEN default ELSE value IN
    IF v = NoneVal THEN NoneVal
    ELSE IF Strip(v) # <<>> THEN Strip(v) ELSE default

\* what int() accepts here: optional blanks, an optional sign, decimal digits
IsIntLiteral(s) ==
    LET t == Strip(s)
        d == IF t # <<>> /\ Head(t) \in {"-", "+"} THEN Tail(t) ELSE t
    IN  d # <<>> /\ \A k \in 1..Len(d) : IsDigit(d[k])
ParseInt(s) ==
    LET t == Strip(s) IN
    IF Head(t) = "-" THEN 0 - DigitsToInt(Tail(t))
    ELSE IF Head(t) = "+" THEN DigitsToInt(Tail(t))
    ELSE DigitsToInt(t)

env_int(value, default) ==
    LET v == IF value = NoneVal THEN IntToStr(default) ELSE value IN
    IF IsIntLiteral(v) THEN ParseInt(v) ELSE default

\* [s.strip() for s in space_list_str.split(",") if s.strip()]
RECURSIVE StripNonEmpty(_)
StripNonEmpty(fields) ==
    IF fields = <<>> THEN <<>>
    ELSE IF Strip(Head(fields)) # <<>>
         THEN <<Strip(Head(fields))>> \o StripNonEmpty(Tail(fields))
         ELSE StripNonEmpty(Tail(fields))
ParseSpaces(space_list_str) == StripNonEmpty(SplitComma(space_list_str))

\* the configuration test of main
ConfigMissing(user, space_list_str) ==
    user = NoneVal \/ user = <<>> \/ space_list_str = NoneVal \/ space_list_str = <<>>

\* ------------------------------------------------------ bounded inputs

\* longest SPACE_LIST value tried
MaxLen == 3
SpaceListAlphabet == {"a", ",", " "}

RECURSIVE StringsUpTo(_)
StringsUpTo(n) ==
    IF n = 0 THEN {<<>>}
    ELSE LET shorter == StringsUpTo(n - 1) IN
         shorter \cup {Append(t, c) : t \in shorter, c \in SpaceListAlphabet}

SpaceListInputs == {NoneVal} \cup StringsUpTo(MaxLen)
UsernameInputs == {NoneVal, <<" ">>, <<"u">>}
TokenInputs == {NoneVal, <<" ">>, <<"t">>}
GlobalTimeoutInputs == {NoneVal, <<"x">>, <<"6","0">>, <<"-","1">>}
WakeupWaitInputs == {<<"3","0">>}
BetweenRequestsInputs == {NoneVal, <<" ","5">>, <<"-","1">>}

\* a response of the runtime endpoint: a transport or JSON failure, or a status
\* code with the "stage" and "status" entries of the JSON body
RuntimeResponse(exc, code, stage, status) ==
    [exc |-> exc, status_code |-> code, stage |-> stage, status |-> status]
RuntimeResponses == {
    RuntimeResponse(TRUE, 0, NoneVal, NoneVal),
    RuntimeResponse(FALSE, 404, NoneVal, NoneVal),
    RuntimeResponse(FALSE, 200, NoneVal, NoneVal),
    RuntimeResponse(FALSE, 200, RUNNING, NoneVal),
    RuntimeResponse(FALSE, 200, <<"R","U","N","T","I","M","E","_">> \o ERROR, NoneVal),
    RuntimeResponse(FALSE, 200, NoneVal, <<"p","a","u","s","e","d">>) }

\* a response of the Space's page: a transport failure with its message, or a
\* status code and a body
PingResponse(exc, code, text) == [exc |-> exc, status_code |-> code, text |-> text]
PingResponses == {
    PingResponse(TRUE, 0, <<"t","i","m","e","d"," ","o","u","t">>),
    PingResponse(FALSE, 200, NoneVal),
    PingResponse(FALSE, 200, <<"B","u","i","l","d","i","n","g">>),
    PingResponse(FALSE, 200, <<"R","u","n","t","i","m","e"," ","E","r","r","o","r">>),
    PingResponse(FALSE, 302, <<>>),
    PingResponse(FALSE, 404, <<>>),
    PingResponse(FALSE, 503, <<"s","t","a","r","t","i","n","g">>) }

\* a response to the restart command: a transport failure, or a status code
PostResponse(exc, code, text) == [exc |-> exc, status_code |-> code, text |-> text]
PostResponses == {
    PostResponse(TRUE, 0, <<"r","e","s","e","t">>),
    PostResponse(FALSE, 200, <<>>),
    PostResponse(FALSE, 503, <<>>) }

\* no restart command sent: a response record with no status
NoPost == PostResponse(FALSE, 0, <<>>)

\* seconds a request takes in a run of main: each one its full timeout
RuntimeDurations == {RUNTIME_TIMEOUT}
PingDurations == {PING_TIMEOUT}
PostDurations == {POST_TIMEOUT}

\* --------------------------------------------------------- collectors

read_runtime(resp) ==
    IF resp.exc \/ resp.status_code >= 400 THEN NoneVal
    ELSE IF resp.stage # NoneVal /\ resp.stage # <<>> THEN Upper(resp.stage)
    ELSE IF resp.status # NoneVal /\ resp.status # <<>> THEN Upper(resp.status)
    ELSE <<>>

\* <<status_code, text>>
ping_space(resp) ==
    IF resp.exc THEN <<TRANSPORT_FAILURE, resp.text>>
    ELSE <<resp.status_code, IF resp.text = NoneVal THEN <<>> ELSE resp.text>>

\* no structured poll of the wait loop is being decided
NOT_POLLED == <<"not polled">>

\* norm_stage = normalize_stage(stage) if stage else None
NormOf(stage) ==
    IF stage = NoneVal \/ stage = <<>> THEN NoneVal ELSE normalize_stage(stage)

\* --------------------------------------------------------------- state

VARIABLES
    pc,                      \* where main is: start, loop, restart, wait, wait_ping,
                             \* wait_ret, pace, done, crashed; where a classifier
                             \* called on its own is: classify, classified,
                             \* normalize, normalized, renormalized
    hf_token, username, spaces,
    global_timeout_seconds, wakeup_wait_seconds, between_requests_sleep,
    now,                     \* time.time() - overall_t0
    results, any_failure,
    i,                       \* position of sp in spaces, from 1
    norm_stage, cls,         \* main's view of the target under examination
    wait_after,              \* restart_space's argument
    caller, max_wait, poll, wt0, last_state,   \* the frame of wait_until_running
    final_state,             \* what the last wait_until_running call returned
    exit_code,
    \* history variables, read by no action
    owner,                   \* owner[k]: position in spaces of the target of results[k]
    restarts,                \* restarts[t]: restart commands sent for target t
    waits,                   \* waits[t]: calls of wait_until_running for target t
    probed,                  \* some probe request has been sent
    ops,                     \* what the last step did: "runtime" and "ping" probes,
                             \* the "restart" command, the poll "sleep" of the wait
                             \* loop, the "pace_sleep" between targets, the "report"
    via,                     \* how the last wait returned: by "stage" or at the "deadline"
    sink_calls, reported,    \* calls of the reporting sink and what it was given
    polled,                  \* norm of the structured poll the wait loop has just
                             \* made, NOT_POLLED outside that cycle
    provisional,             \* what the content probes of the current wait have
                             \* shown: "none" made, only "unknown", or some "known"
    posted,                  \* the answer to the restart command sent for the target
                             \* under examination, NoPost when none was sent
    \* a classifier called on its own
    status_code, html,       \* the arguments of classify_from_html
    stage,                   \* the argument of normalize_stage
    ret                      \* what the last call returned

vars == <<pc, hf_token, username, spaces, global_timeout_seconds, wakeup_wait_seconds,
          between_requests_sleep, now, results, any_failure, i, norm_stage, cls,
          wait_after, caller, max_wait, poll, wt0, last_state, final_state, exit_code,
          owner, restarts, waits, probed, ops, via, sink_calls, reported, polled,
          provisional, posted, status_code, html, stage, ret>>

config == <<hf_token, username, spaces, global_timeout_seconds, wakeup_wait_seconds,
            between_requests_sleep>>
frame == <<caller, max_wait, poll, wt0, last_state, polled, provisional>>
call == <<status_code, html, stage, ret>>

\* action names of the report: check is "检查", keepalive "保活", rebuild "重建",
\* skip "跳过"; the note "missing HF_TOKEN" is "缺少 HF_TOKEN，无法重建" and
\* "global timeout" is "全局超时"
Outcome(sp, action, state, success, note) ==
    [space |-> sp, action |-> action, state |-> state, success |-> success, note |-> note]

\* everything but the position of main and the frame of wait_until_running
Idle ==
    /\ hf_token = NoneVal /\ username = NoneVal /\ spaces = <<>>
    /\ global_timeout_seconds = 0 /\ wakeup_wait_seconds = 0
    /\ between_requests_sleep = 0
    /\ now = 0
    /\ results = <<>> /\ any_failure = FALSE
    /\ i = 1
    /\ norm_stage = NoneVal /\ cls = NoneVal
    /\ wait_after = 0
    /\ wt0 = 0 /\ last_state = UNKNOWN
    /\ polled = NOT_POLLED /\ provisional = "none"
    /\ final_state = NoneVal
    /\ exit_code = NoneVal
    /\ owner = <<>> /\ restarts = <<>> /\ waits = <<>>
    /\ probed = FALSE /\ ops = {} /\ via = "none"
    /\ sink_calls = 0 /\ reported = NoneVal /\ posted = NoPost

\* no classifier is being called on its own
NoCall == status_code = 0 /\ html = NoneVal /\ stage = NoneVal /\ ret = NoneVal

Init ==
    /\ pc = "start"
    /\ caller = "none" /\ max_wait = 0 /\ poll = 0
    /\ Idle /\ NoCall

\* main, up to the loop: read the environment, return 2 on a missing setting
ReadConfig ==
    /\ pc = "start"
    /\ \E e_token \in TokenInputs, e_user \in UsernameInputs, e_list \in SpaceListInputs,
          e_global \in GlobalTimeoutInputs, e_wake \in WakeupWaitInputs,
          e_between \in BetweenRequestsInputs :
        LET user == env_str(e_user, NoneVal)
            space_list_str == env_str(e_list, <<>>)
        IN  /\ hf_token' = env_str(e_token, NoneVal)
            /\ username' = user
            /\ global_timeout_seconds' = env_int(e_global, DEFAULT_GLOBAL_TIMEOUT)
            /\ wakeup_wait_seconds' = env_int(e_wake, DEFAULT_WAKEUP_WAIT)
            /\ between_requests_sleep' = env_int(e_between, DEFAULT_BETWEEN_REQUESTS)
            /\ IF ConfigMissing(user, space_list_str)
               THEN /\ pc' = "done"
                    /\ exit_code' = 2
                    /\ UNCHANGED <<spaces, restarts, waits>>
               ELSE /\ pc' = "loop"
                    /\ spaces' = ParseSpaces(space_list_str)
                    /\ restarts' = [t \in 1..Len(ParseSpaces(space_list_str)) |-> 0]
                    /\ waits' = [t \in 1..Len(ParseSpaces(space_list_str)) |-> 0]
                    /\ UNCHANGED exit_code
    /\ ops' = {}
    /\ UNCHANGED <<now, results, any_failure, i, norm_stage, cls, wait_after, frame,
                   final_state, owner, probed, via, sink_calls, reported, posted, call>>

\* a deadline test that allows twice the budget
GlobalDeadlinePassed_Doubled(t, limit) == t > 2 * limit

\* the test at the top of the loop body
GlobalDeadlinePassed(t, limit) == t > limit

\* the loop body when the global deadline has passed
SkipTarget ==
    /\ pc = "loop" /\ i <= Len(spaces)
    /\ GlobalDeadlinePassed(now, global_timeout_seconds)
    /\ results' = Append(results, Outcome(spaces[i], "skip", TIMEOUT, FALSE, "global timeout"))
    /\ owner' = Append(owner, i)
    /\ any_failure' = TRUE
    /\ i' = i + 1
    /\ ops' = {}
    /\ UNCHANGED <<pc, config, call, now, norm_stage, cls, wait_after, frame, final_state,
                   exit_code, restarts, waits, probed, via, sink_calls, reported, posted>>

\* a branch order that looks at the page before the structured stage
Branch_PageFirst(norm, c) ==
    IF c = ERROR THEN "page_error"
    ELSE IF norm = RUNNING THEN "running"
    ELSE IF norm = ERROR THEN "stage_error"
    ELSE IF c \in {RUNNING, WAKING_UP} THEN "keepalive"
    ELSE "check"

\* which branch of the loop body a target takes
Branch(norm, c) ==
    IF norm = RUNNING THEN "running"
    ELSE IF norm = ERROR THEN "stage_error"
    ELSE IF c \in {RUNNING, WAKING_UP} THEN "keepalive"
    ELSE IF c = ERROR THEN "page_error"
    ELSE "check"

\* a credential test that lets every target through
CanRebuild_Always(token) == TRUE

\* the credential test in front of every restart_space call
CanRebuild(token) == token # NoneVal

\* a ceiling without the floor
RebuildWaitAfter_NoFloor(wakeup) == wakeup

\* the ceiling main asks restart_space for
RebuildWaitAfter(wakeup) == Max(REBUILD_FLOOR, wakeup)

\* the state of the Outcome of the last branch: norm_stage or cls or "UNKNOWN"
CheckState(norm, c) ==
    IF norm # NoneVal /\ norm # <<>> THEN norm
    ELSE IF c # NoneVal /\ c # <<>> THEN c
    ELSE UNKNOWN

\* the loop body up to the first wait or restart: both probes and the branch taken
Examine ==
    /\ pc = "loop" /\ i <= Len(spaces)
    /\ ~GlobalDeadlinePassed(now, global_timeout_seconds)
    /\ \E presp \in PingResponses, dp \in PingDurations,
          rresp \in RuntimeResponses, dr \in RuntimeDurations :
        LET page == ping_space(presp)
            norm == NormOf(read_runtime(rresp))
            c    == classify_from_html(page[1], page[2])
            br   == Branch(norm, c)
            sp   == spaces[i]
            missing == Outcome(sp, "rebuild", ERROR, FALSE, "missing HF_TOKEN")
        IN  /\ now' = now + dp + dr
            /\ norm_stage' = norm
            /\ cls' = IF br \in {"running", "stage_error"} THEN NoneVal ELSE c
            /\ CASE br = "running" ->
                    /\ results' = Append(results, Outcome(sp, "check", RUNNING, TRUE, ""))
                    /\ owner' = Append(owner, i)
                    /\ pc' = "pace"
                    /\ UNCHANGED <<any_failure, wait_after, frame, waits>>
                 [] br \in {"stage_error", "page_error"} /\ ~CanRebuild(hf_token) ->
                    /\ results' = Append(results, missing)
                    /\ owner' = Append(owner, i)
                    /\ any_failure' = TRUE
                    /\ pc' = "pace"
                    /\ UNCHANGED <<wait_after, frame, waits>>
                 [] br \in {"stage_error", "page_error"} /\ CanRebuild(hf_token) ->
                    /\ wait_after' = RebuildWaitAfter(wakeup_wait_seconds)
                    /\ pc' = "restart"
                    /\ UNCHANGED <<results, owner, any_failure, frame, waits>>
                 [] br = "keepalive" ->
                    /\ caller' = "keepalive"
                    /\ max_wait' = wakeup_wait_seconds
                    /\ poll' = KEEPALIVE_POLL
                    /\ wt0' = now + dp + dr
                    /\ last_state' = UNKNOWN
                    /\ polled' = NOT_POLLED /\ provisional' = "none"
                    /\ waits' = [waits EXCEPT ![i] = @ + 1]
                    /\ pc' = "wait"
                    /\ UNCHANGED <<results, owner, any_failure, wait_after>>
                 [] br = "check" ->
                    /\ results' = Append(results,
                           Outcome(sp, "check", CheckState(norm, c), c = RUNNING, ""))
                    /\ owner' = Append(owner, i)
                    /\ pc' = "pace"
                    /\ UNCHANGED <<any_failure, wait_after, frame, waits>>
    /\ probed' = TRUE
    /\ ops' = {"ping", "runtime"}
    /\ UNCHANGED <<config, call, i, final_state, exit_code, restarts, via, sink_calls, reported, posted>>

\* the third component restart_space returns when the command is not accepted
RestartHttpNote(code) ==
    <<"r","e","s","t","a","r","t"," ","h","t","t","p"," ">> \o IntToStr(code)
RestartExceptionNote(text) ==
    <<"r","e","s","t","a","r","t"," ","e","x","c","e","p","t","i","o","n",":"," ">> \o text

\* an acceptance test that looks at transport failures only
RestartAccepted_AnyStatus(resp) == ~resp.exc

\* whether restart_space goes on to wait after the POST
RestartAccepted(resp) == ~resp.exc /\ resp.status_code < 400

\* restart_space up to its wait, and main's bookkeeping when the command fails
Restart ==
    /\ pc = "restart"
    /\ \E resp \in PostResponses, d \in PostDurations :
        /\ now' = now + d
        /\ posted' = resp
        /\ IF RestartAccepted(resp)
           THEN /\ caller' = "rebuild"
                /\ max_wait' = wait_after
                /\ poll' = REBUILD_POLL
                /\ wt0' = now + d
                /\ last_state' = UNKNOWN
                /\ polled' = NOT_POLLED /\ provisional' = "none"
                /\ waits' = [waits EXCEPT ![i] = @ + 1]
                /\ pc' = "wait"
                /\ UNCHANGED <<results, owner, any_failure>>
           ELSE /\ results' = Append(results,
                       Outcome(spaces[i], "rebuild",
                               IF resp.exc THEN RestartExceptionNote(resp.text)
                               ELSE RestartHttpNote(resp.status_code),
                               FALSE, ""))
                /\ owner' = Append(owner, i)
                /\ any_failure' = TRUE
                /\ pc' = "pace"
                /\ UNCHANGED <<frame, waits>>
    /\ restarts' = [restarts EXCEPT ![i] = @ + 1]
    /\ ops' = {"restart"}
    /\ UNCHANGED <<config, call, i, norm_stage, cls, wait_after, final_state, exit_code,
                   probed, via, sink_calls, reported>>

\* a decision that goes on waiting when the stage is ERROR
WaitDecision_ErrorWaits(norm, elapsed, limit, last) ==
    IF norm = RUNNING THEN RUNNING
    ELSE IF elapsed > limit
         THEN IF last # UNKNOWN THEN last
              ELSE IF norm # NoneVal /\ norm # <<>> THEN norm ELSE TIMEOUT
         ELSE NoneVal

\* a decision whose deadline is twice the ceiling
WaitDecision_LateDeadline(norm, elapsed, limit, last) ==
    IF norm = RUNNING THEN RUNNING
    ELSE IF norm = ERROR THEN ERROR
    ELSE IF elapsed > 2 * limit
         THEN IF last # UNKNOWN THEN last
              ELSE IF norm # NoneVal /\ norm # <<>> THEN norm ELSE TIMEOUT
         ELSE NoneVal

\* the decision of one cycle of wait_until_running after the structured poll:
\* the state to return, or NoneVal to go on with the content probe
WaitDecision(norm, elapsed, limit, last) ==
    IF norm = RUNNING THEN RUNNING
    ELSE IF norm = ERROR THEN ERROR
    ELSE IF elapsed > limit
         THEN IF last # UNKNOWN THEN last
              ELSE IF norm # NoneVal /\ norm # <<>> THEN norm ELSE TIMEOUT
         ELSE NoneVal

\* one cycle of wait_until_running, first half: the structured poll and the returns
WaitPoll(durations) ==
    /\ pc = "wait"
    /\ \E resp \in RuntimeResponses, d \in durations :
        LET norm == NormOf(read_runtime(resp))
            decision == WaitDecision(norm, (now + d) - wt0, max_wait, last_state)
        IN  /\ now' = now + d
            /\ polled' = norm
            /\ IF decision = NoneVal
               THEN /\ pc' = "wait_ping"
                    /\ UNCHANGED <<final_state, via>>
               ELSE /\ pc' = "wait_ret"
                    /\ final_state' = decision
                    /\ via' = IF norm \in {RUNNING, ERROR} THEN "stage" ELSE "deadline"
    /\ probed' = TRUE
    /\ ops' = {"runtime"}
    /\ UNCHANGED <<config, call, results, any_failure, i, norm_stage, cls, wait_after, caller,
                   max_wait, poll, wt0, last_state, provisional, exit_code, owner,
                   restarts, waits, sink_calls, reported, posted>>

\* one cycle of wait_until_running, second half: the content probe and the sleep
WaitPing(durations) ==
    /\ pc = "wait_ping"
    /\ \E resp \in PingResponses, d \in durations :
        LET page == ping_space(resp)
            c == classify_from_html(page[1], page[2])
        IN  /\ last_state' = c
            /\ provisional' = IF c # UNKNOWN THEN "known"
                               ELSE IF provisional = "none" THEN "unknown"
                               ELSE provisional
            /\ now' = now + d + poll
    /\ polled' = NOT_POLLED
    /\ pc' = "wait"
    /\ probed' = TRUE
    /\ ops' = {"ping", "sleep"}
    /\ UNCHANGED <<config, call, results, any_failure, i, norm_stage, cls, wait_after, caller,
                   max_wait, poll, wt0, final_state, exit_code, owner, restarts, waits,
                   via, sink_calls, reported, posted>>

\* the frame of wait_until_running once it has returned
PopFrame ==
    /\ caller' = "none" /\ max_wait' = 0 /\ poll' = 0 /\ wt0' = 0 /\ last_state' = UNKNOWN
    /\ polled' = NOT_POLLED /\ provisional' = "none"

\* a state_out that passes on whatever the wait returned
KeepaliveState_PassThrough(final) == final

\* a state_out that keeps only ERROR
KeepaliveState_OnlyError(final) == IF final = ERROR THEN ERROR ELSE WAKING_UP

\* state_out of the keep-alive branch
KeepaliveState(final) == IF final \in {RUNNING, ERROR} THEN final ELSE WAKING_UP

\* the keep-alive branch of main after its wait
KeepaliveDone ==
    /\ pc = "wait_ret" /\ caller = "keepalive"
    /\ LET state_out == KeepaliveState(final_state)
           success == state_out # ERROR
       IN  /\ results' = Append(results,
                  Outcome(spaces[i], "keepalive", state_out, success, ""))
           /\ owner' = Append(owner, i)
           /\ IF success
              THEN /\ pc' = "pace"
                   /\ UNCHANGED <<any_failure, wait_after>>
              ELSE IF CanRebuild(hf_token)
                   THEN /\ wait_after' = RebuildWaitAfter(wakeup_wait_seconds)
                        /\ pc' = "restart"
                        /\ UNCHANGED any_failure
                   ELSE /\ any_failure' = TRUE
                        /\ pc' = "pace"
                        /\ UNCHANGED wait_after
    /\ PopFrame
    /\ ops' = {}
    /\ UNCHANGED <<config, call, now, i, norm_stage, cls, final_state, exit_code, restarts,
                   waits, probed, via, sink_calls, reported, posted>>

\* an ok that only rules out ERROR
RebuildOk_NotError(state) == state # ERROR

\* ok of restart_space
RebuildOk(state) == state = RUNNING

\* the end of restart_space and main's bookkeeping after it
RebuildDone ==
    /\ pc = "wait_ret" /\ caller = "rebuild"
    /\ results' = Append(results,
           Outcome(spaces[i], "rebuild", final_state, RebuildOk(final_state), ""))
    /\ owner' = Append(owner, i)
    /\ any_failure' = (any_failure \/ ~RebuildOk(final_state))
    /\ pc' = "pace"
    /\ PopFrame
    /\ ops' = {}
    /\ UNCHANGED <<config, call, now, i, norm_stage, cls, wait_after, final_state, exit_code,
                   restarts, waits, probed, via, sink_calls, reported, posted>>

\* time.sleep raises ValueError for a negative length
SleepRaises(seconds) == seconds < 0

\* time.sleep(between_requests_sleep), then the next target; the views of the
\* finished target are not read again.  Nothing in main catches the ValueError
\* of a negative delay: the run ends there, without report or return value.
Pace ==
    /\ pc = "pace"
    /\ IF SleepRaises(between_requests_sleep)
       THEN /\ pc' = "crashed"
            /\ ops' = {}
            /\ UNCHANGED <<now, i>>
       ELSE /\ pc' = "loop"
            /\ now' = now + between_requests_sleep
            /\ i' = i + 1
            /\ ops' = {"pace_sleep"}
    /\ norm_stage' = NoneVal /\ cls' = NoneVal /\ final_state' = NoneVal
    /\ via' = "none" /\ wait_after' = 0 /\ posted' = NoPost
    /\ UNCHANGED <<config, call, results, any_failure, frame, exit_code, owner, restarts,
                   waits, probed, sink_calls, reported>>

\* the exit code of a run that got past the configuration test
ExitCode(failed) == IF failed THEN 1 ELSE 0

\* main after the loop: the reports and the exit code
Report ==
    /\ pc = "loop" /\ i > Len(spaces)
    /\ sink_calls' = sink_calls + 1
    /\ reported' = results
    /\ exit_code' = ExitCode(any_failure)
    /\ pc' = "done"
    /\ ops' = {"report"}
    /\ UNCHANGED <<config, call, now, results, any_failure, i, norm_stage, cls, wait_after,
                   frame, final_state, owner, restarts, waits, probed, via, posted>>

Next ==
    \/ ReadConfig
    \/ SkipTarget
    \/ Examine
    \/ Restart
    \/ WaitPoll(RuntimeDurations)
    \/ WaitPing(PingDurations)
    \/ KeepaliveDone
    \/ RebuildDone
    \/ Pace
    \/ Report

Spec == Init /\ [][Next]_vars

\* ------------------------------------- wait_until_running on its own

\* ceilings tried: none, the default wake-up wait, the rebuild floor
WaitCeilings == {0, DEFAULT_WAKEUP_WAIT, REBUILD_FLOOR}
\* seconds a request may take: none, one, or its full timeout
FreeRuntimeDurations == {0, 1, RUNTIME_TIMEOUT}
FreePingDurations == {0, 1, PING_TIMEOUT}

\* a call of wait_until_running with either poll interval main uses
InitWait ==
    /\ pc = "wait"
    /\ caller = "standalone"
    /\ max_wait \in WaitCeilings
    /\ poll \in {KEEPALIVE_POLL, REBUILD_POLL}
    /\ Idle /\ NoCall

NextWait ==
    \/ WaitPoll(FreeRuntimeDurations)
    \/ WaitPing(FreePingDurations)

\* the interpreter runs the next statement of the call: weak fairness of its steps
SpecWait == InitWait /\ [][NextWait]_vars /\ WF_vars(NextWait)

\* ------------------------------------------- the classifiers on their own

\* status codes on either side of each threshold of classify_from_html
StatusCodes == {100, 199, 200, 204, 299, 300, 302, 399, 400, 404, 499, 500, 503, 599}
\* bodies: none, empty, plain text, waking-up keywords, error keywords, both
Bodies == {
    NoneVal,
    <<>>,
    <<"o","k">>,
    <<"S","t","a","r","t","i","n","g">>,
    <<"B","U","I","L","D","I","N","G">>,
    <<"l","a","u","n","c","h","i","n","g"," ","n","o","w">>,
    <<"R","u","n","t","i","m","e"," ","E","r","r","o","r">>,
    <<"b","u","i","l","d"," ","f","a","i","l","e","d">>,
    <<"E","r","r","o","r"," ","I","D",":"," ","b","u","i","l","d","i","n","g">>,
    <<"e","r","r","o","r">> }

\* stage tokens: none, empty, the tokens normalize_stage names in either case,
\* tokens with ERROR or FAIL inside, the canonical states, unknown tokens
StageTokens == {
    RUNNING, RUNNING_BUILDING, BUILDING, STARTING, RUNTIME_STARTING, SLEEPING, STOPPED,
    <<"R","U","N","T","I","M","E","_">> \o ERROR,
    <<"B","U","I","L","D","_">> \o ERROR,
    <<"C","O","N","F","I","G","_">> \o ERROR,
    ERROR, FAIL, FAIL \o <<"E","D">>,
    WAKING_UP, UNKNOWN, TIMEOUT,
    <<"P","A","U","S","E","D">>,
    <<"N","O","_","A","P","P","_","F","I","L","E">>,
    <<" ">> \o RUNNING }
StageInputs == {NoneVal, <<>>} \cup StageTokens \cup {Lower(t) : t \in StageTokens}

\* a call of classify_from_html, or of normalize_stage, about to be made
InitPure ==
    /\ \/ /\ pc = "classify"
          /\ status_code \in StatusCodes /\ html \in Bodies /\ stage = NoneVal
       \/ /\ pc = "normalize"
          /\ status_code = 0 /\ html = NoneVal /\ stage \in StageInputs
    /\ ret = NoneVal
    /\ caller = "none" /\ max_wait = 0 /\ poll = 0
    /\ Idle

Classify ==
    /\ pc = "classify"
    /\ ret' = classify_from_html(status_code, html)
    /\ pc' = "classified"
    /\ UNCHANGED <<config, now, results, any_failure, i, norm_stage, cls, wait_after, frame,
                   final_state, exit_code, owner, restarts, waits, probed, ops, via,
                   sink_calls, reported, posted, status_code, html, stage>>

Normalize ==
    /\ pc = "normalize"
    /\ norm_stage' = normalize_stage(stage)
    /\ ret' = normalize_stage(stage)
    /\ pc' = "normalized"
    /\ UNCHANGED <<config, now, results, any_failure, i, cls, wait_after, frame,
                   final_state, exit_code, owner, restarts, waits, probed, ops, via,
                   sink_calls, reported, posted, status_code, html, stage>>

\* normalize_stage applied to its own result
Renormalize ==
    /\ pc = "normalized"
    /\ ret' = normalize_stage(norm_stage)
    /\ pc' = "renormalized"
    /\ UNCHANGED <<config, now, results, any_failure, i, norm_stage, cls, wait_after, frame,
                   final_state, exit_code, owner, restarts, waits, probed, ops, via,
                   sink_calls, reported, posted, status_code, html, stage>>

NextPure == Classify \/ Normalize \/ Renormalize

SpecPure == InitPure /\ [][NextPure]_vars

\* ------------------------------------------------------------ helpers

PAUSED == <<"P","A","U","S","E","D">>

\* the Outcomes recorded for the target at position t, in order
RECURSIVE OutcomesFrom(_, _)
OutcomesFrom(t, k) ==
    IF k > Len(results) THEN <<>>
    ELSE IF owner[k] = t THEN <<results[k]>> \o OutcomesFrom(t, k + 1)
    ELSE OutcomesFrom(t, k + 1)
OutcomesOf(t) == OutcomesFrom(t, 1)
LastOutcomeOf(t) == OutcomesOf(t)[Len(OutcomesOf(t))]

\* the target at position i has been dealt with and main is about to move on
TargetDone == pc = "pace"
\* the loop over the targets has ended
LoopEnded == (pc = "loop" /\ i > Len(spaces)) \/ (pc = "done" /\ exit_code # 2)
MissingTokenOutcome == Outcome(spaces[i], "rebuild", ERROR, FALSE, "missing HF_TOKEN")

\* ------------------------------------------------------------- claims

\* the target under examination is one main would rebuild had it a credential
NeedsRecovery ==
    \/ Branch(norm_stage, cls) \in {"stage_error", "page_error"}
    \/ Branch(norm_stage, cls) = "keepalive" /\ waits[i] = 1 /\ final_state = ERROR

C2_ExitCodeIffAllSucceeded ==
    pc = "done" /\ exit_code # 2 =>
        /\ exit_code = 0 <=> \A k \in 1..Len(results) : results[k].success
        /\ (\E k \in 1..Len(results) : ~results[k].success) => exit_code = 1

\* C3 as stated: when the loop has ended the failure flag is set if and only
\* if some target's last recorded Outcome is a failure, targets that took the
\* ambiguous check branch included.
C3_FlagIffLastOutcomeFailed ==
    LoopEnded =>
        (any_failure <=> \E t \in 1..Len(spaces) : ~LastOutcomeOf(t).success)

\* C4 as stated: a missing owner or a target list without names makes main
\* return 2 before any probe, Outcome or report.
C4_EmptyConfigurationIsFatal ==
    pc = "done" /\ (username = NoneVal \/ spaces = <<>>) =>
        /\ exit_code = 2
        /\ ~probed /\ results = <<>> /\ sink_calls = 0

\* C5 as stated: the state of every recorded Outcome is one of the six
\* canonical liveness states.
C5_OutcomeStatesCanonical ==
    \A k \in 1..Len(results) : results[k].state \in LivenessStates

\* the time wait_until_running reports when it returns
WaitElapsed == now - wt0
WaitReturned == pc = "wait_ret"

\* C6 as stated: every call of wait_until_running returns, and it returns
\* within max_wait + one poll interval + one probe timeout (the longer of the
\* two probe timeouts).
C6_Original ==
    /\ <>WaitReturned
    /\ [](WaitReturned => WaitElapsed <= max_wait + poll + PING_TIMEOUT)

\* C6 as amended: every call of wait_until_running returns, and it returns
\* within max_wait + one poll interval + the content probe's timeout + the
\* structured probe's timeout.
C6_WaitReturnsWithinBound ==
    /\ <>WaitReturned
    /\ [](WaitReturned =>
            WaitElapsed <= max_wait + poll + PING_TIMEOUT + RUNTIME_TIMEOUT)

\* a call with a positive ceiling has returned at its deadline later than
\* max_wait + poll + one probe timeout
C6_Witness ==
    /\ WaitReturned /\ via = "deadline" /\ max_wait > 0
    /\ WaitElapsed > max_wait + poll + PING_TIMEOUT

C8_RunningStageOnlyChecks ==
    norm_stage = RUNNING =>
        /\ TargetDone
        /\ OutcomesOf(i) = <<Outcome(spaces[i], "check", RUNNING, TRUE, "")>>
        /\ waits[i] = 0 /\ restarts[i] = 0

\* a second target has been found RUNNING by its structured stage
C8_Witness == TargetDone /\ norm_stage = RUNNING /\ i = 2

\* the restart for a target found in ERROR by its structured stage was
\* accepted and the wait after it did not return RUNNING
RebuildGaveUp ==
    /\ TargetDone /\ norm_stage = ERROR /\ hf_token # NoneVal
    /\ restarts[i] = 1 /\ waits[i] = 1 /\ final_state # RUNNING

KeepalivePath == norm_stage = NoneVal /\ cls \in {RUNNING, WAKING_UP}

\* C10: such a target enters the keep-alive wait loop, and when a structured
\* poll of that wait normalizes to RUNNING exactly one Outcome,
\* keepalive/RUNNING/success, is recorded and no restart command is issued.
C10_KeepaliveReachesRunning ==
    /\ KeepalivePath /\ pc \in {"wait", "wait_ping", "wait_ret", "restart", "pace"} =>
          waits[i] >= 1
    /\ KeepalivePath /\ TargetDone /\ waits[i] = 1
            /\ via = "stage" /\ final_state = RUNNING =>
          /\ OutcomesOf(i) = <<Outcome(spaces[i], "keepalive", RUNNING, TRUE, "")>>
          /\ restarts[i] = 0

\* a target with credential, no stage and a page that says it is building
\* has been polled RUNNING by its keep-alive wait
C10_Witness ==
    /\ KeepalivePath /\ cls = WAKING_UP /\ TargetDone /\ waits[i] = 1
    /\ via = "stage" /\ final_state = RUNNING /\ hf_token # NoneVal

\* the Outcome of a target reached after the global deadline
SkipOutcome(t) == Outcome(spaces[t], "skip", TIMEOUT, FALSE, "global timeout")
\* some target has been skipped
Skipping == \E k \in 1..Len(results) : results[k].action = "skip"
FirstSkip ==
    CHOOSE k \in 1..Len(results) :
        results[k].action = "skip" /\ \A j \in 1..(k - 1) : results[j].action # "skip"
\* main is at the top of a target's iteration with the global budget used up
DeadlineFound == pc = "loop" /\ i <= Len(spaces) /\ now > global_timeout_seconds

\* C11: once the global deadline is found exceeded at the top of a target's
\* iteration, the step taken records skip/TIMEOUT/failure for that target and
\* sets the failure flag; from the first skip on every Outcome is the single
\* skip Outcome of the next target in list order, and no step sends a
\* structured probe, a content probe or a restart command, or sleeps.
C11_DeadlineSkipsTheRest ==
    /\ [][DeadlineFound =>
            /\ results' = Append(results, SkipOutcome(i))
            /\ any_failure' /\ i' = i + 1 /\ ops' = {}]_vars
    /\ [][Skipping =>
            /\ ops' \subseteq {"report"}
            /\ now' = now /\ restarts' = restarts /\ waits' = waits]_vars
    /\ [](Skipping =>
            /\ any_failure
            /\ pc \in {"loop", "done"}
            /\ ops \subseteq {"report"}
            /\ i = owner[Len(results)] + 1
            /\ \A k \in FirstSkip..Len(results) :
                  /\ owner[k] = owner[FirstSkip] + (k - FirstSkip)
                  /\ results[k] = SkipOutcome(owner[k])
            /\ \A t \in owner[FirstSkip]..(i - 1) : OutcomesOf(t) = <<SkipOutcome(t)>>)

\* a run whose budget was used up from the start has skipped both its targets
\* and reported
C11_Witness ==
    /\ pc = "done" /\ Len(spaces) = 2 /\ ~probed
    /\ results = <<SkipOutcome(1), SkipOutcome(2)>>

\* main has stopped after getting past the configuration test
RunStopped == (pc = "done" /\ exit_code # 2) \/ pc = "crashed"
\* the Outcomes are in the order of the target list
InTargetOrder ==
    /\ Len(owner) = Len(results)
    /\ \A k \in 1..Len(results) :
          /\ owner[k] \in 1..Len(spaces)
          /\ results[k].space = spaces[owner[k]]
          /\ k > 1 => owner[k - 1] <= owner[k]

\* C12 as stated: whatever the probes and the restart command answer, when a
\* run with a valid configuration stops every target of the list has at least
\* one Outcome, and the Outcomes are in target-list order.
C12_EveryTargetRecorded ==
    /\ InTargetOrder
    /\ RunStopped => \A t \in 1..Len(spaces) : Len(OutcomesOf(t)) >= 1

\* C13 as stated: a run with a valid configuration hands the Outcome sequence
\* to the reporting sink exactly once, only after the last target has been
\* processed, and the sequence stays as handed over; a run that ends with the
\* fatal configuration code never calls the sink.
C13_SinkGetsResultsOnce ==
    /\ sink_calls <= 1
    /\ sink_calls = 1 => pc = "done" /\ i > Len(spaces) /\ reported = results
    /\ RunStopped => sink_calls = 1
    /\ pc = "done" /\ exit_code = 2 => sink_calls = 0

\* positions in results of the Outcomes of the target at position t
PositionsOf(t) == {k \in 1..Len(results) : owner[k] = t}

\* the Outcomes of every target main has dealt with: one, or two of which the
\* second is a rebuild that follows the first directly and stands for the one
\* restart command sent for the target
OutcomesWellFormed ==
    \A t \in 1..Len(spaces) :
        /\ Len(OutcomesOf(t)) <= 2
        /\ t < i \/ (t = i /\ pc \in {"pace", "crashed"}) => Len(OutcomesOf(t)) >= 1
        /\ Len(OutcomesOf(t)) = 2 =>
              /\ \E k \in 1..(Len(results) - 1) : PositionsOf(t) = {k, k + 1}
              /\ OutcomesOf(t)[1].action = "keepalive"
              /\ OutcomesOf(t)[2].action = "rebuild"
              /\ restarts[t] = 1

\* C14 as stated: every target of the list contributes one Outcome or two,
\* never none and never more than two; a second Outcome exists only when a
\* rebuild was run for the target, follows the first directly and has action
\* rebuild.
C14_OneOrTwoOutcomesPerTarget ==
    /\ OutcomesWellFormed
    /\ RunStopped => \A t \in 1..Len(spaces) : Len(OutcomesOf(t)) \in {1, 2}

\* the target under examination took the keep-alive branch
KeepaliveBranch == Branch(norm_stage, cls) = "keepalive"
KeepaliveFailed == Outcome(spaces[i], "keepalive", ERROR, FALSE, "")
\* the keep-alive wait has returned and no restart command has been sent since:
\* final_state is what that wait returned
AfterKeepaliveWait ==
    KeepaliveBranch /\ pc \in {"restart", "pace"} /\ waits[i] = 1 /\ restarts[i] = 0

\* C15: on the keep-alive branch a wait that returns anything but RUNNING or
\* ERROR gives the single Outcome keepalive/WAKING_UP/success; a wait that
\* returns ERROR gives a failed keepalive Outcome, after which a run with a
\* credential sends exactly one restart command and records it as a second,
\* rebuild Outcome, and a run without credential sends none and sets the
\* failure flag.
C15_KeepaliveOutcome ==
    /\ AfterKeepaliveWait /\ final_state \notin {RUNNING, ERROR} =>
          /\ TargetDone
          /\ OutcomesOf(i) = <<Outcome(spaces[i], "keepalive", WAKING_UP, TRUE, "")>>
    /\ AfterKeepaliveWait /\ final_state = ERROR =>
          /\ OutcomesOf(i) = <<KeepaliveFailed>>
          /\ IF hf_token # NoneVal THEN pc = "restart" ELSE TargetDone /\ any_failure
    /\ KeepaliveBranch /\ restarts[i] > 0 =>
          /\ hf_token # NoneVal /\ restarts[i] = 1
          /\ OutcomesOf(i)[1] = KeepaliveFailed
          /\ TargetDone =>
                /\ Len(OutcomesOf(i)) = 2
                /\ OutcomesOf(i)[2].action = "rebuild"

\* a keep-alive wait has returned the raw token of a stage it does not know,
\* and the target is recorded as waking up
C15_Witness ==
    /\ AfterKeepaliveWait /\ TargetDone /\ final_state = PAUSED
    /\ LastOutcomeOf(i).state = WAKING_UP

\* the restart command for the target under examination was answered with a
\* status of 400 or more, or failed in transport
RestartRejected == posted # NoPost /\ (posted.exc \/ posted.status_code >= 400)
\* what main records for a rejected restart command
RejectedOutcome ==
    Outcome(spaces[i], "rebuild",
            IF posted.exc THEN RestartExceptionNote(posted.text)
            ELSE RestartHttpNote(posted.status_code),
            FALSE, "")
AtMostOneRestart == \A t \in 1..Len(restarts) : restarts[t] <= 1
RejectedIsRecorded ==
    RestartRejected =>
        /\ TargetDone /\ ops = {"restart"}
        /\ LastOutcomeOf(i) = RejectedOutcome
        /\ any_failure

\* C16 as stated: the restart command is sent at most once per target, and
\* after a rejected or failed command the rebuild Outcome is a failure and no
\* structured probe, content probe or sleep is performed for that target.
C16_Original ==
    /\ [](AtMostOneRestart /\ RejectedIsRecorded)
    /\ [][RestartRejected =>
            ops' \cap {"runtime", "ping", "sleep", "pace_sleep"} = {}]_vars

\* C16 as amended: the restart command is sent at most once per target, and
\* after a rejected or failed command the rebuild Outcome is a failure and the
\* only thing main still does for that target is the pacing sleep between
\* targets: no structured probe, no content probe, no poll sleep, no further
\* restart command and no further Outcome.
C16_RejectedRestartEndsTarget ==
    /\ [](AtMostOneRestart /\ RejectedIsRecorded)
    /\ [][RestartRejected =>
            /\ ops' \subseteq {"pace_sleep"}
            /\ pc' \in {"loop", "crashed"}
            /\ results' = results /\ restarts' = restarts /\ waits' = waits]_vars

\* the restart command for a target whose stage is ERROR was answered 503
C16_Witness ==
    /\ RestartRejected /\ TargetDone /\ norm_stage = ERROR
    /\ ~posted.exc /\ posted.status_code = 503

\* the structured poll just made normalized to RUNNING or ERROR
PolledTerminal == polled \in {RUNNING, ERROR}
\* a poll that normalizes to RUNNING or ERROR ends the wait at once, with that
\* state and without another content probe or sleep
TerminalPollReturns ==
    /\ pc = "wait_ping" => ~PolledTerminal
    /\ WaitReturned /\ PolledTerminal =>
          final_state = polled /\ via = "stage" /\ ops = {"runtime"}
\* what a wait that returns at its deadline falls back to when it has no
\* page classification to return
StageOrTimeout == IF polled # NoneVal THEN polled ELSE TIMEOUT

\* C17 as stated: the wait returns RUNNING (ERROR) at the first structured
\* poll that normalizes to it, without another content probe or sleep;
\* otherwise it returns once max_wait has elapsed, with the last provisional
\* state when a content probe has shown one, and with TIMEOUT or the
\* unrecognized stage only when none ever has.
C17_Original ==
    /\ TerminalPollReturns
    /\ WaitReturned /\ ~PolledTerminal =>
          /\ WaitElapsed > max_wait
          /\ provisional = "known" => final_state = last_state
          /\ final_state = StageOrTimeout => provisional # "known"

\* C17 as amended: the wait returns RUNNING (ERROR) at the first structured
\* poll that normalizes to it, without another content probe or sleep;
\* otherwise it returns at the first poll after max_wait has elapsed, with the
\* classification of the most recent content probe unless that is UNKNOWN;
\* when the most recent probe classified UNKNOWN, whatever earlier ones
\* showed, or none was made, it returns the normalized stage of that poll if
\* there is one and TIMEOUT if not.
C17_WaitReturnValue ==
    /\ TerminalPollReturns
    /\ provisional = "none" => last_state = UNKNOWN
    /\ last_state # UNKNOWN => provisional = "known"
    /\ WaitReturned /\ ~PolledTerminal =>
          /\ WaitElapsed > max_wait /\ via = "deadline" /\ ops = {"runtime"}
          /\ final_state = IF last_state # UNKNOWN THEN last_state ELSE StageOrTimeout

\* a wait whose content probes showed a state and then UNKNOWN has returned
\* TIMEOUT at its deadline
C17_Witness ==
    /\ WaitReturned /\ provisional = "known" /\ last_state = UNKNOWN
    /\ final_state = TIMEOUT

\* the body of the call, lower-cased, holds an error-page keyword / a
\* waking-up keyword
Body == Lower(IF html = NoneVal THEN <<>> ELSE html)
HasErrorKeyword == \E k \in 1..Len(ERROR_PAGE_KEYWORDS) : Contains(Body, ERROR_PAGE_KEYWORDS[k])
HasWakingKeyword == \E k \in 1..Len(WAKING_UP_KEYWORDS) : Contains(Body, WAKING_UP_KEYWORDS[k])
Classified == pc = "classified"

\* C18: for every status code and body classify_from_html returns one of
\* ERROR, WAKING_UP, RUNNING, UNKNOWN, namely: ERROR for a status of 500 or
\* more whatever the body; below 500, ERROR when the lower-cased body holds an
\* error-page keyword, else WAKING_UP when it holds a waking-up keyword (also
\* for a status in [400,500)), else RUNNING for a status in [200,300), else
\* ERROR for a status of 400 or more, else UNKNOWN.
C18_ClassifyDecisionList ==
    Classified =>
        /\ ret \in {ERROR, WAKING_UP, RUNNING, UNKNOWN}
        /\ status_code >= 500 => ret = ERROR
        /\ status_code < 500 /\ HasErrorKeyword => ret = ERROR
        /\ status_code < 500 /\ ~HasErrorKeyword /\ HasWakingKeyword => ret = WAKING_UP
        /\ ~HasErrorKeyword /\ ~HasWakingKeyword =>
              /\ status_code >= 200 /\ status_code < 300 => ret = RUNNING
              /\ status_code >= 400 => ret = ERROR
              /\ status_code < 200 \/ (status_code >= 300 /\ status_code < 400) =>
                    ret = UNKNOWN

\* a page answered with status 404 and a body that says it is starting has
\* been classified WAKING_UP
C18_Witness ==
    /\ Classified /\ status_code = 404 /\ HasWakingKeyword /\ ~HasErrorKeyword
    /\ ret = WAKING_UP

\* the stage of the call is one of the tokens the claim names
KnownToken ==
    /\ stage # NoneVal
    /\ \/ stage \in {RUNNING, RUNNING_BUILDING, BUILDING, STARTING, RUNTIME_STARTING,
                     SLEEPING, STOPPED}
       \/ Contains(stage, ERROR) \/ Contains(stage, FAIL)
Renormalized == pc = "renormalized"

\* C19: normalize_stage applied to its own result gives that result again,
\* for every known stage token (and for every other stage tried); a known
\* token normalizes to RUNNING, WAKING_UP, SLEEPING or ERROR; an empty or
\* absent stage gives no result, not UNKNOWN.
C19_NormalizeIdempotent ==
    /\ Renormalized => ret = norm_stage
    /\ pc \in {"normalized", "renormalized"} /\ KnownToken =>
          norm_stage \in {RUNNING, WAKING_UP, SLEEPING, ERROR}
    /\ pc \in {"normalized", "renormalized"} /\ stage \in {NoneVal, <<>>} =>
          norm_stage = NoneVal /\ norm_stage # UNKNOWN

\* RUNTIME_STARTING has been normalized to WAKING_UP, and WAKING_UP again to
\* itself
C19_Witness ==
    /\ Renormalized /\ KnownToken /\ stage = RUNTIME_STARTING
    /\ norm_stage = WAKING_UP /\ ret = WAKING_UP

\* the target under examination has been given a successful rebuild Outcome
RebuildSucceeded ==
    /\ TargetDone /\ restarts[i] = 1
    /\ LastOutcomeOf(i).action = "rebuild" /\ LastOutcomeOf(i).success

\* C20 as stated: a rebuild Outcome is a success only if the restart command
\* was accepted and the wait after it returned on a structured poll that
\* normalized to RUNNING; the classification of a page alone never makes it
\* a success.
C20_RebuildSuccessNeedsStageRunning ==
    RebuildSucceeded =>
        /\ ~posted.exc /\ posted.status_code < 400
        /\ via = "stage" /\ final_state = RUNNING

====
